---- MODULE Spec2Model ----
(***************************************************************************)
(* Model of package goprof (profiler.go): the process-wide profiler `p`,   *)
(* the operations Start, Stop and Run, and the collaborators they call     *)
(* (os.Create / File.Close, runtime/pprof, runtime/trace, time.Now).       *)
(*                                                                         *)
(* A time.Time is an integer, 0 being the zero Time (IsZero).  An *os.File *)
(* is an index into the table of files opened so far, 0 being nil.  An     *)
(* error is a string, "nil" being the nil error.                           *)
(***************************************************************************)
EXTENDS Integers, Sequences, FiniteSets, TLC

VARIABLES
    p,          \* var p profiler: [start, end, cpu, block, trace, heap]
    fds,        \* every file os.Create has returned: <<[name, open]>>
    disk,       \* the files on disk: name -> TRUE when non-empty
    cpuProf,    \* runtime/pprof: the sink CPU sampling writes to, 0 when off
    traceProf,  \* runtime/trace: the sink tracing writes to, 0 when off
    blockRate,  \* runtime.SetBlockProfileRate's current rate
    now,        \* what time.Now() returns
    ev,         \* the effects of the call in progress (or the last call), in order
    calls,      \* the top-level calls that have returned, in order
    runPc,      \* where a call to Run is: "idle" (no Run), "work", "stop"
    thr         \* the goroutines calling Start concurrently: where each is in Start

vars == <<p, fds, disk, cpuProf, traceProf, blockRate, now, ev, calls, runPc, thr>>

\* ------------------------------------------------------------------ bounds
MaxCalls == 2       \* top-level calls of Start, Stop and Run in a behaviour
MaxTime == 2        \* the clock stops advancing here

\* ticks that setup, teardown or the profiled work may take
Latencies == {0, 1}

Labels == {"", "a"}

\* the step of Start that the environment makes fail first ("none": nothing fails)
StartFailures == {"none", "cpu", "block", "trace", "heap", "cpuprof", "traceprof"}
\* the step of Stop that the environment makes fail first
StopFailures == {"none", "blockwrite", "heapwrite",
                 "closecpu", "closeblock", "closetrace", "closeheap"}

\* ------------------------------------------------------------ file names
cpuName(name) == name \o ".cpu.pprof"
blockName(name) == name \o ".block.prof"
traceName(name) == name \o ".trace.out"
heapName(name) == name \o ".heap.prof"

\* ------------------------------------------------------- the program state
\* The mutable world the functions below thread through, as one record.
State == [p |-> p, fds |-> fds, disk |-> disk, cpuProf |-> cpuProf,
          traceProf |-> traceProf, blockRate |-> blockRate, now |-> now, ev |-> ev]

Install(s) ==
    /\ p' = s.p
    /\ fds' = s.fds
    /\ disk' = s.disk
    /\ cpuProf' = s.cpuProf
    /\ traceProf' = s.traceProf
    /\ blockRate' = s.blockRate
    /\ now' = s.now
    /\ ev' = s.ev

\* One effect: what happened (e), in which function (op), to what (k: a sink
\* kind, a label, or the error of a return), with which file or at which time (v).
Ev(e, op, k, v) == [e |-> e, op |-> op, k |-> k, v |-> v]
Emit(s, x) == [s EXCEPT !.ev = Append(@, x)]

\* A statement yields [s |-> the state after it, err |-> its error].
Ok(s) == [s |-> s, err |-> "nil"]
Fail(s, err) == [s |-> s, err |-> err]

\* `if err := r; err != nil { return err }` and then F: r is evaluated once
Then(r, F(_)) == CHOOSE x \in {IF y.err # "nil" THEN y ELSE F(y.s) : y \in {r}} : TRUE

\* `return r` of function op
Return(op, r) ==
    CHOOSE x \in {[s |-> Emit(y.s, Ev("return", op, y.err, y.s.now)), err |-> y.err] : y \in {r}} : TRUE

\* the zero value of profiler
ZeroProfiler == [start |-> 0, end |-> 0, cpu |-> 0, block |-> 0, trace |-> 0, heap |-> 0]

\* ---------------------------------------------------------- collaborators
\* a write to file f: fails on a nil or closed file
fileWrite(s, f, ok) ==
    IF f = 0 THEN Fail(s, "invalid argument")
    ELSE IF ~s.fds[f].open THEN Fail(s, "file already closed")
    ELSE IF ~ok THEN Fail(s, "write " \o s.fds[f].name)
    ELSE Ok([s EXCEPT !.disk[s.fds[f].name] = TRUE])

\* f.Close(): fails on a nil or closed file; the descriptor is released even
\* when the close reports an error
fileClose(s, f, ok) ==
    IF f = 0 THEN Fail(s, "invalid argument")
    ELSE IF ~s.fds[f].open THEN Fail(s, "file already closed")
    ELSE IF ~ok THEN Fail([s EXCEPT !.fds[f].open = FALSE], "close " \o s.fds[f].name)
    ELSE Ok([s EXCEPT !.fds[f].open = FALSE])

\* pprof.StartCPUProfile(f): fails when CPU profiling is already in use
StartCPUProfile(s, f, ok) ==
    IF s.cpuProf # 0 \/ ~ok
    THEN Fail(Emit(s, Ev("cpustartfail", "Start", "cpu", f)), "cpuprof")
    ELSE Ok(Emit([s EXCEPT !.cpuProf = f], Ev("cpustart", "Start", "cpu", f)))

\* trace.Start(f): fails when tracing is already enabled
traceStart(s, f, ok) ==
    IF s.traceProf # 0 \/ ~ok
    THEN Fail(Emit(s, Ev("tracestartfail", "Start", "trace", f)), "traceprof")
    ELSE Ok(Emit([s EXCEPT !.traceProf = f], Ev("tracestart", "Start", "trace", f)))

BlockProfileRate == 1

\* runtime.SetBlockProfileRate(rate)
SetBlockProfileRate(s, rate) ==
    Ok(Emit([s EXCEPT !.blockRate = rate], Ev("blockrate", "Start", "block", rate)))

\* pprof.StopCPUProfile(): flushes the profile to its sink; a no-op when off
StopCPUProfile(s) ==
    Ok(Emit([(IF s.cpuProf = 0 THEN s ELSE fileWrite(s, s.cpuProf, TRUE).s)
               EXCEPT !.cpuProf = 0],
            Ev("cpustop", "Stop", "cpu", s.cpuProf)))

\* trace.Stop(): flushes the trace to its sink; a no-op when off
traceStop(s) ==
    Ok(Emit([(IF s.traceProf = 0 THEN s ELSE fileWrite(s, s.traceProf, TRUE).s)
               EXCEPT !.traceProf = 0],
            Ev("tracestop", "Stop", "trace", s.traceProf)))

\* time passing inside a call
Elapse(s, d) == [s EXCEPT !.now = @ + d]

\* ------------------------------------------------------------- profiler.go
started_inverted(q) == q.start = 0 /\ q.end = 0

\* started() looking only at p.start
started_startOnly(q) == q.start # 0

\* started() taking an open cpu sink for a session
started_anySink(q) == q.start # 0 \/ q.cpu # 0

\* func (p *profiler) started() bool
started(q) == q.start # 0 /\ q.end # 0

\* func (p *profiler) duration() time.Duration
duration(q) == q.end - q.start

\* One stanza of setupFiles: `f, err := os.Create(fname); if err != nil
\* { return err }; p.<kind> = f`.  os.Create creates or truncates the file
\* and returns a new handle.
createSink(s, kind, fname, ok) ==
    IF ~ok
    THEN Fail(Emit(s, Ev("createfail", "setupFiles", kind, 0)), "open " \o fname)
    ELSE Ok(Emit([s EXCEPT !.fds = Append(@, [name |-> fname, open |-> TRUE]),
                           !.disk = [n \in DOMAIN s.disk \cup {fname} |->
                                       IF n = fname THEN FALSE ELSE s.disk[n]],
                           !.p[kind] = Len(s.fds) + 1],
                 Ev("create", "setupFiles", kind, Len(s.fds) + 1)))

\* the block stanza without its `return err`
setupFiles_noReturnOnBlock(s, name, fail) ==
    Then(Then(Ok(Then(createSink(s, "cpu", cpuName(name), fail # "cpu"),
                      LAMBDA a : createSink(a, "block", blockName(name), fail # "block")).s),
              LAMBDA a : createSink(a, "trace", traceName(name), fail # "trace")),
         LAMBDA a : createSink(a, "heap", heapName(name), fail # "heap"))

\* the block stanza storing its handle in p.cpu
setupFiles_blockIntoCpu(s, name, fail) ==
    Then(Then(Then(createSink(s, "cpu", cpuName(name), fail # "cpu"),
                   LAMBDA a : createSink(a, "cpu", blockName(name), fail # "block")),
              LAMBDA a : createSink(a, "trace", traceName(name), fail # "trace")),
         LAMBDA a : createSink(a, "heap", heapName(name), fail # "heap"))

\* func setupFiles(name string) error
setupFiles(s, name, fail) ==
    Then(Then(Then(createSink(s, "cpu", cpuName(name), fail # "cpu"),
                   LAMBDA a : createSink(a, "block", blockName(name), fail # "block")),
              LAMBDA a : createSink(a, "trace", traceName(name), fail # "trace")),
         LAMBDA a : createSink(a, "heap", heapName(name), fail # "heap"))

\* one `if err := p.<kind>.Close(); err != nil { return err }` of cleanupFiles
closeSink(s, kind, ok) ==
    CHOOSE x \in {[s   |-> Emit(c.s, Ev(IF c.err = "nil" THEN "close" ELSE "closefail",
                                        "cleanupFiles", kind, s.p[kind])),
                   err |-> c.err] : c \in {fileClose(s, s.p[kind], ok)}} : TRUE

\* func cleanupFiles() error
cleanupFiles(s, fail) ==
    Then(Then(Then(closeSink(s, "cpu", fail # "closecpu"),
                   LAMBDA a : closeSink(a, "block", fail # "closeblock")),
              LAMBDA a : closeSink(a, "trace", fail # "closetrace")),
         LAMBDA a : closeSink(a, "heap", fail # "closeheap"))

\* the label Start uses: an empty name becomes a time stamp
labelOf(s, name) == IF name = "" THEN "goprof-" \o ToString(s.now) ELSE name

\* `p.start = time.Now()`
recordStart(s) == Ok(Emit([s EXCEPT !.p.start = s.now], Ev("setstart", "Start", "", s.now)))

\* `p.end = time.Now()`
recordEnd(s) == Ok(Emit([s EXCEPT !.p.end = s.now], Ev("setend", "Stop", "", s.now)))

\* Start with `p.start = time.Now()` as its first statement behind the guard
Start_recordFirst(s, name, fail, d) ==
    IF started(s.p)
    THEN Return("Start", Fail(Emit(s, Ev("enter", "Start", name, s.now)), "ErrAlreadyStarted"))
    ELSE Return("Start",
           Then(Then(Then(Then(recordStart(Emit(s, Ev("enter", "Start", name, s.now))),
             LAMBDA a : setupFiles(Elapse(a, d), labelOf(s, name), fail)),
             LAMBDA a : StartCPUProfile(a, a.p.cpu, fail # "cpuprof")),
             LAMBDA a : traceStart(a, a.p.trace, fail # "traceprof")),
             LAMBDA a : SetBlockProfileRate(a, BlockProfileRate)))

\* func Start(name string) error; the setup takes d ticks of the clock
Start(s, name, fail, d) ==
    IF started(s.p)
    THEN Return("Start", Fail(Emit(s, Ev("enter", "Start", name, s.now)), "ErrAlreadyStarted"))
    ELSE Return("Start",
           Then(Then(Then(Then(
             setupFiles(Elapse(Emit(s, Ev("enter", "Start", name, s.now)), d),
                        labelOf(s, name), fail),
             LAMBDA a : StartCPUProfile(a, a.p.cpu, fail # "cpuprof")),
             LAMBDA a : traceStart(a, a.p.trace, fail # "traceprof")),
             LAMBDA a : SetBlockProfileRate(a, BlockProfileRate)),
             LAMBDA a : recordStart(a)))

\* one snapshot write of Stop: pprof.Lookup("block").WriteTo(p.block, 0),
\* pprof.WriteHeapProfile(p.heap)
writeSnapshot(s, kind, ok) ==
    CHOOSE x \in {[s   |-> Emit(w.s, Ev(IF w.err = "nil" THEN "write" ELSE "writefail",
                                        "Stop", kind, s.p[kind])),
                   err |-> w.err] : w \in {fileWrite(s, s.p[kind], ok)}} : TRUE

\* func Stop() error; the teardown takes d ticks of the clock
Stop(s, fail, d) ==
    IF ~started(s.p)
    THEN Return("Stop", Fail(Emit(s, Ev("enter", "Stop", "", s.now)), "ErrNotStarted"))
    ELSE Return("Stop",
           Then(Then(Then(Then(Then(
             recordEnd(Emit(s, Ev("enter", "Stop", "", s.now))),
             LAMBDA a : StopCPUProfile(Elapse(a, d))),
             LAMBDA a : traceStop(a)),
             LAMBDA a : writeSnapshot(a, "block", fail # "blockwrite")),
             LAMBDA a : writeSnapshot(a, "heap", fail # "heapwrite")),
             LAMBDA a : cleanupFiles(a, fail)))

RunAfterStart_skipWork(err) == IF err # "nil" THEN "idle" ELSE "stop"

RunAfterStart_ignoreErr(err) == "work"

\* Run, after its call of Start: `return err`, or go on to f()
RunAfterStart(err) == IF err # "nil" THEN "idle" ELSE "work"

\* ------------------------------------------------------------------ actions
FailEvents == {"createfail", "cpustartfail", "tracestartfail", "writefail", "closefail"}

\* the record of a top-level call: what was called, what it returned, and
\* whether a file operation or a profiling primitive failed during it
\* among effects e, a Start has returned success
ReturnedOk(e) == \E i \in DOMAIN e : e[i].e = "return" /\ e[i].op = "Start" /\ e[i].k = "nil"

\* among effects e, Stop has been called
EnteredStop(e) == \E i \in DOMAIN e : e[i].e = "enter" /\ e[i].op = "Stop"

\* The record of a top-level call: what was called, what it returned, whether
\* a file operation or a profiling primitive failed during it, whether a Start
\* in it returned success, whether Stop was called in it (in a Run: after that
\* Start), and whether it opened a sink.
Call(op, err, e) ==
    [op |-> op, err |-> err, failed |-> \E i \in DOMAIN e : e[i].e \in FailEvents,
     started |-> ReturnedOk(e), stopped |-> EnteredStop(e),
     opened |-> \E i \in DOMAIN e : e[i].e = "create"]

\* a goroutine that has not called Start yet
ThreadInit == [pc |-> "call", label |-> "", err |-> "nil", mine |-> <<>>]

Threads == {1, 2}

\* the state a call starts from: its effects are recorded from scratch
Fresh == [State EXCEPT !.ev = <<>>]

Init ==
    /\ p = ZeroProfiler
    /\ fds = <<>>
    /\ disk = << >>
    /\ cpuProf = 0
    /\ traceProf = 0
    /\ blockRate = 0
    /\ now = 1
    /\ ev = <<>>
    /\ calls = <<>>
    /\ runPc = "idle"
    /\ thr = [t \in Threads |-> ThreadInit]

\* time passes between calls
Tick ==
    /\ runPc = "idle"
    /\ now < MaxTime
    /\ now' = now + 1
    /\ UNCHANGED <<p, fds, disk, cpuProf, traceProf, blockRate, ev, calls, runPc, thr>>

\* goprof.Start(name)
CallStart(name, fail, d) ==
    /\ runPc = "idle"
    /\ Len(calls) < MaxCalls
    /\ now + d <= MaxTime
    /\ \E r \in {Start(Fresh, name, fail, d)} :
         /\ Install(r.s)
         /\ calls' = Append(calls, Call("Start", r.err, r.s.ev))
    /\ UNCHANGED <<runPc, thr>>

\* goprof.Stop()
CallStop(fail, d) ==
    /\ runPc = "idle"
    /\ Len(calls) < MaxCalls
    /\ now + d <= MaxTime
    /\ \E r \in {Stop(Fresh, fail, d)} :
         /\ Install(r.s)
         /\ calls' = Append(calls, Call("Stop", r.err, r.s.ev))
    /\ UNCHANGED <<runPc, thr>>

\* goprof.Run(name, f), up to the call of f: `if err := Start(name); err != nil
\* { return err }`
RunStart(name, fail, d) ==
    /\ runPc = "idle"
    /\ Len(calls) < MaxCalls
    /\ now + d <= MaxTime
    /\ \E r \in {Start(Emit(Fresh, Ev("enter", "Run", name, now)), name, fail, d)} :
         /\ runPc' = RunAfterStart(r.err)
         /\ IF runPc' = "idle"
            THEN \E q \in {Return("Run", r)} :
                   /\ Install(q.s)
                   /\ calls' = Append(calls, Call("Run", q.err, q.s.ev))
            ELSE /\ Install(r.s)
                 /\ UNCHANGED calls
    /\ UNCHANGED thr

\* Run: `f()`, the profiled work, which takes w ticks
RunWork(w) ==
    /\ runPc = "work"
    /\ now + w <= MaxTime
    /\ Install(Elapse(Emit(State, Ev("work", "Run", "", now)), w))
    /\ runPc' = "stop"
    /\ UNCHANGED <<calls, thr>>

\* Run: `return Stop()`
RunStop(fail, d) ==
    /\ runPc = "stop"
    /\ now + d <= MaxTime
    /\ \E q \in {Return("Run", Stop(State, fail, d))} :
         /\ Install(q.s)
         /\ calls' = Append(calls, Call("Run", q.err, q.s.ev))
    /\ runPc' = "idle"
    /\ UNCHANGED thr

Next ==
    \/ Tick
    \/ \E name \in Labels, fail \in StartFailures, d \in Latencies : CallStart(name, fail, d)
    \/ \E fail \in StopFailures, d \in Latencies : CallStop(fail, d)
    \/ \E name \in Labels, fail \in StartFailures, d \in Latencies : RunStart(name, fail, d)
    \/ \E w \in Latencies : RunWork(w)
    \/ \E fail \in StopFailures, d \in Latencies : RunStop(fail, d)

Spec == Init /\ [][Next]_vars

\* ------------------------------------------------------------ vocabulary
Kinds == <<"cpu", "block", "trace", "heap">>

\* the sinks of profiler q, in the order of Kinds
Sinks(q) == <<q.cpu, q.block, q.trace, q.heap>>

\* the file name of a sink
fileName(kind, label) ==
    CASE kind = "cpu" -> cpuName(label)
      [] kind = "block" -> blockName(label)
      [] kind = "trace" -> traceName(label)
      [] kind = "heap" -> heapName(label)

LastCall == calls[Len(calls)]

\* this step is the return of a top-level call of op
IsCall(op) == Len(calls') = Len(calls) + 1 /\ calls'[Len(calls')].op = op

\* this step runs the body of Start, called directly or by Run
IsStartStep == runPc = "idle" /\ (runPc' = "work" \/ IsCall("Start") \/ IsCall("Run"))

\* the effects of Start (and of the setupFiles it calls) among effects e
StartEvs(e) == SelectSeq(e, LAMBDA x : x.op \in {"Start", "setupFiles"})

\* the positions in e of the effects named n
At(e, n) == {i \in DOMAIN e : e[i].e = n}

\* what happened, without the details
Es(e) == [i \in DOMAIN e |-> e[i].e]

\* ev records a call of Run, in progress or returned
InRun == Len(ev) >= 1 /\ ev[1].e = "enter" /\ ev[1].op = "Run"

\* an open sink that was written and closed
Finished(f) == f # 0 /\ ~fds[f].open /\ disk[fds[f].name]

\* ------------------------------------------- concurrent calls of Start
\* Two goroutines call Start on the shared p, which no lock guards; each
\* statement of Start and setupFiles is one step.  The effects are not logged.
StartPcs == <<"cpu", "block", "trace", "heap", "cpuprof", "traceprof", "rate", "record">>

\* the statement after the one at pc
NextPc(pc) == StartPcs[(CHOOSE i \in DOMAIN StartPcs : StartPcs[i] = pc) + 1]

\* goroutine t goes on to the next statement, or returns err
Proceed(t, err) ==
    thr' = [thr EXCEPT ![t].pc = IF err = "nil" THEN NextPc(@) ELSE "done", ![t].err = err]

\* the shared state after a statement, its effects dropped
Shared(s) == Install([s EXCEPT !.ev = ev])

\* `if p.started() { return ErrAlreadyStarted }` and the choice of the label
RaceGuard(t, name) ==
    /\ thr[t].pc = "call"
    /\ thr' = [thr EXCEPT ![t] = IF started(p)
                                 THEN [@ EXCEPT !.pc = "done", !.err = "ErrAlreadyStarted"]
                                 ELSE [@ EXCEPT !.pc = "cpu", !.label = labelOf(State, name)]]
    /\ UNCHANGED <<p, fds, disk, cpuProf, traceProf, blockRate, now, ev, calls, runPc>>

\* one stanza of setupFiles
RaceCreate(t, ok) ==
    /\ thr[t].pc \in {"cpu", "block", "trace", "heap"}
    /\ \E r \in {createSink(State, thr[t].pc, fileName(thr[t].pc, thr[t].label), ok)} :
         /\ Shared(r.s)
         /\ thr' = [thr EXCEPT ![t].pc = IF r.err = "nil" THEN NextPc(@) ELSE "done",
                               ![t].err = r.err,
                               ![t].mine = IF r.err = "nil" THEN Append(@, Len(r.s.fds)) ELSE @]
    /\ UNCHANGED <<calls, runPc>>

\* `pprof.StartCPUProfile(p.cpu)`
RaceCPUProfile(t, ok) ==
    /\ thr[t].pc = "cpuprof"
    /\ \E r \in {StartCPUProfile(State, p.cpu, ok)} : Shared(r.s) /\ Proceed(t, r.err)
    /\ UNCHANGED <<calls, runPc>>

\* `trace.Start(p.trace)`
RaceTrace(t, ok) ==
    /\ thr[t].pc = "traceprof"
    /\ \E r \in {traceStart(State, p.trace, ok)} : Shared(r.s) /\ Proceed(t, r.err)
    /\ UNCHANGED <<calls, runPc>>

\* `runtime.SetBlockProfileRate(1)`
RaceBlockRate(t) ==
    /\ thr[t].pc = "rate"
    /\ \E r \in {SetBlockProfileRate(State, BlockProfileRate)} : Shared(r.s) /\ Proceed(t, r.err)
    /\ UNCHANGED <<calls, runPc>>

\* `p.start = time.Now(); return nil`.  A time.Time is several words: when
\* another goroutine is at the same statement the two writes race and p.start
\* may end up as any mix of them, here any non-zero time.
RaceRecord(t, torn) ==
    /\ thr[t].pc = "record"
    /\ torn # now => \E u \in Threads \ {t} : thr[u].pc = "record"
    /\ \E r \in {recordStart(State)} : Shared([r.s EXCEPT !.p.start = torn])
    /\ thr' = [thr EXCEPT ![t].pc = "done"]
    /\ UNCHANGED <<calls, runPc>>

NextRace ==
    \/ Tick
    \/ \E t \in Threads, name \in Labels : RaceGuard(t, name)
    \/ \E t \in Threads, ok \in BOOLEAN : RaceCreate(t, ok)
    \/ \E t \in Threads, ok \in BOOLEAN : RaceCPUProfile(t, ok)
    \/ \E t \in Threads, ok \in BOOLEAN : RaceTrace(t, ok)
    \/ \E t \in Threads : RaceBlockRate(t)
    \/ \E t \in Threads, torn \in 1..MaxTime : RaceRecord(t, torn)

SpecRace == Init /\ [][NextRace]_vars

TypeOK ==
    /\ p \in [start : 0..MaxTime, end : 0..MaxTime, cpu : 0..Len(fds),
              block : 0..Len(fds), trace : 0..Len(fds), heap : 0..Len(fds)]
    /\ cpuProf \in 0..Len(fds)
    /\ traceProf \in 0..Len(fds)
    /\ now \in 1..MaxTime
    /\ runPc \in {"idle", "work", "stop"}
    /\ Len(calls) <= MaxCalls

\* there is no reachable state in which started() holds: p.end is only ever
\* written behind the guard `!p.started()`, which needs p.end already written
NeverStarted == ~started(p)

\* ------------------------------------------------------------------- claims
\* C1: a Start on a fresh session followed immediately by a Stop, nothing
\* failing in either, returns no error from both calls and leaves the four
\* sinks created, written and closed.
C1_StartThenStopSucceeds ==
    (/\ Len(calls) = 2
     /\ calls[1].op = "Start" /\ ~calls[1].failed
     /\ calls[2].op = "Stop" /\ ~calls[2].failed)
    => /\ calls[1].err = "nil"
       /\ calls[2].err = "nil"
       /\ \A i \in 1..4 : Finished(Sinks(p)[i])

\* C2: a Start right after a successful Start returns ErrAlreadyStarted and
\* leaves the session as it was: the same sink handles, still open, no file
\* created or truncated, startedAt unchanged.
C2_SecondStartRejected ==
    [][(/\ Len(calls) >= 1
        /\ LastCall.op = "Start" /\ LastCall.err = "nil"
        /\ IsCall("Start"))
       => /\ calls'[Len(calls')].err = "ErrAlreadyStarted"
          /\ p' = p
          /\ fds' = fds
          /\ disk' = disk
          /\ At(ev', "create") = {}]_vars

\* C3: a Stop when no Start (and no Run) has ever been called returns
\* ErrNotStarted and changes nothing: endedAt stays unset, no profiling
\* primitive is stopped or written, no sink is touched.
C3_StopOnIdle ==
    [][(/\ \A i \in DOMAIN calls : calls[i].op = "Stop"
        /\ IsCall("Stop"))
       => /\ calls'[Len(calls')].err = "ErrNotStarted"
          /\ p' = p
          /\ p'.end = 0
          /\ <<fds', disk', cpuProf', traceProf', blockRate'>>
               = <<fds, disk, cpuProf, traceProf, blockRate>>
          /\ Es(ev') = <<"enter", "return">>]_vars

\* a Stop was the first call, was refused, and the session is still the zero value
C3_Witness ==
    /\ Len(calls) >= 1
    /\ calls[1].op = "Stop"
    /\ calls[1].err = "ErrNotStarted"
    /\ p = ZeroProfiler
    /\ fds = <<>>

\* C5: Run on a fresh session, nothing failing, returns no error and leaves
\* the session Closed: startedAt and endedAt set, the four sinks closed.
C5_RunSucceeds ==
    (Len(calls) = 1 /\ calls[1].op = "Run" /\ ~calls[1].failed)
    => /\ calls[1].err = "nil"
       /\ p.start # 0
       /\ p.end # 0
       /\ \A i \in 1..4 : Sinks(p)[i] # 0 /\ ~fds[Sinks(p)[i]].open

\* C6: Run invokes work at most once; the invocation comes after Start has
\* recorded startedAt and returned success, and before Stop is entered; and
\* Stop is only entered once work has been invoked.
C6_WorkOnceBetweenStartAndStop ==
    InRun =>
      LET work == At(ev, "work")
          stop == {i \in At(ev, "enter") : ev[i].op = "Stop"}
      IN  /\ Cardinality(work) <= 1
          /\ \A i \in work :
               /\ \E j \in At(ev, "setstart") : j < i
               /\ \E j \in At(ev, "return") :
                    j < i /\ ev[j].op = "Start" /\ ev[j].k = "nil"
               /\ \A j \in stop : i < j
          /\ stop # {} => Cardinality(work) = 1
          /\ runPc = "work" => work = {} /\ p.start # 0
          /\ runPc = "stop" => Cardinality(work) = 1 /\ stop = {} /\ p.start # 0

\* a Run has returned after invoking work once and then Stop
C6_Witness ==
    /\ InRun
    /\ runPc = "idle"
    /\ Cardinality(At(ev, "work")) = 1
    /\ \E i \in At(ev, "enter") : ev[i].op = "Stop"
    /\ LastCall.op = "Run"

\* C7: when the Start inside Run fails, Run returns that error and invokes
\* neither work nor Stop; when it succeeds, Run returns what Stop returns.
C7_RunReturns ==
    InRun =>
      LET startRet == {i \in At(ev, "return") : ev[i].op = "Start"}
          stopRet == {i \in At(ev, "return") : ev[i].op = "Stop"}
          runRet == {i \in At(ev, "return") : ev[i].op = "Run"}
          stop == {i \in At(ev, "enter") : ev[i].op = "Stop"}
      IN  /\ Cardinality(startRet) = 1
          /\ \A i \in startRet :
               IF ev[i].k # "nil"
               THEN /\ runPc = "idle"
                    /\ At(ev, "work") = {}
                    /\ stop = {}
                    /\ runRet = {i + 1}
                    /\ ev[i + 1].k = ev[i].k
                    /\ Len(ev) = i + 1
                    /\ LastCall.op = "Run" /\ LastCall.err = ev[i].k
               ELSE runPc = "idle" =>
                      /\ Cardinality(stopRet) = 1
                      /\ \A j \in stopRet :
                           /\ runRet = {j + 1}
                           /\ ev[j + 1].k = ev[j].k
                           /\ Len(ev) = j + 1
                           /\ LastCall.op = "Run" /\ LastCall.err = ev[j].k

\* one Run has returned the error of a failed sink open or profiling primitive
\* of its Start, and another has returned what its Stop returned
C7_Witness ==
    /\ Len(calls) >= 2
    /\ \E i \in DOMAIN calls :
         /\ calls[i].op = "Run" /\ calls[i].failed
         /\ calls[i].err \notin {"nil", "ErrNotStarted", "ErrAlreadyStarted"}
    /\ InRun /\ runPc = "idle"
    /\ At(ev, "work") # {}
    /\ \E j \in At(ev, "return") : ev[j].op = "Stop" /\ LastCall.err = ev[j].k

\* C8: after a Start that succeeded and a Stop called after it, the duration
\* endedAt - startedAt is defined and non-negative, and runs from the end of
\* Start's setup to the entry of Stop.
C8_DurationOfSession ==
    (/\ Len(calls) >= 2
     /\ calls[Len(calls) - 1].op = "Start" /\ calls[Len(calls) - 1].err = "nil"
     /\ LastCall.op = "Stop")
    => /\ p.start # 0
       /\ p.end # 0
       /\ duration(p) >= 0
       /\ p.end = ev[1].v

C10_StartedAtLast ==
    [][IsStartStep =>
         LET e == StartEvs(ev')
             r == e[Len(e)]
         IN  /\ r.e = "return" /\ r.op = "Start"
             /\ r.k = "nil" <=> At(e, "setstart") # {}
             /\ r.k = "nil" =>
                  /\ Es(e) = <<"enter", "create", "create", "create", "create", "cpustart",
                               "tracestart", "blockrate", "setstart", "return">>
                  /\ p'.start = e[9].v
                  /\ p'.start = now'
                  /\ \A i \in 1..4 : Sinks(p')[i] # 0 /\ fds'[Sinks(p')[i]].open
                  /\ cpuProf' = p'.cpu
                  /\ traceProf' = p'.trace
                  /\ blockRate' = BlockProfileRate
             /\ r.k # "nil" => p'.start = p.start]_vars

\* a Start that failed was followed by a Start that succeeded and recorded
\* startedAt as its last effect before returning
C10_Witness ==
    /\ Len(calls) = 2
    /\ calls[1].op = "Start" /\ calls[1].err # "nil"
    /\ calls[2].op = "Start" /\ calls[2].err = "nil"
    /\ Len(ev) = 10
    /\ ev[9].e = "setstart"
    /\ p.start = ev[9].v

\* -------------------------------------------------------------- the session
\* some Start call has returned success (the session is or has been Active)
EverActive == (\E i \in DOMAIN calls : calls[i].started) \/ ReturnedOk(ev)

\* a Start call has returned success and Stop has not been called since
NowActive ==
    IF runPc # "idle"
    THEN ReturnedOk(ev) /\ ~EnteredStop(ev)
    ELSE \E i \in DOMAIN calls :
           /\ calls[i].started
           /\ \A j \in i..Len(calls) : ~calls[j].stopped

AnySink == \E i \in 1..4 : Sinks(p)[i] # 0
AllSinks == \A i \in 1..4 : Sinks(p)[i] # 0

\* C13: the sink handles are non-null if and only if some Start call has
\* returned success, whether "the handles" are read as all four or as any.
C13_SinksIffEverActive == (AllSinks <=> EverActive) \/ (AnySink <=> EverActive)

\* C13, amended: once some Start call has returned success, all four sink
\* handles are non-null; a non-null handle is a file that a Start call opened.
C13_SinksWhenEverActive ==
    /\ EverActive => AllSinks
    /\ \A i \in 1..4 : Sinks(p)[i] # 0 =>
         /\ Sinks(p)[i] \in DOMAIN fds
         /\ \E l \in {"a"} \cup {"goprof-" \o ToString(n) : n \in 1..MaxTime} :
              fds[Sinks(p)[i]].name = fileName(Kinds[i], l)

\* a Start has returned success and the four handles are non-null
C13_Witness == EverActive /\ AllSinks /\ LastCall.op = "Start" /\ LastCall.err = "nil"

\* C14: startedAt is unset exactly when no Start call has ever returned
\* success; startedAt set with endedAt unset holds exactly when the session is
\* Active (a Start has returned success and Stop has not been called since);
\* endedAt is never set while startedAt is unset.
C14_TimestampsTrackSession ==
    /\ p.start = 0 <=> ~EverActive
    /\ (p.start # 0 /\ p.end = 0) <=> NowActive
    /\ p.start = 0 => p.end = 0

\* the handles goroutine t has opened that p no longer holds although they are open
Overwritten(t) ==
    {i \in DOMAIN thr[t].mine : Sinks(p)[i] # thr[t].mine[i] /\ fds[thr[t].mine[i]].open}

\* C15: with two goroutines calling Start concurrently on the Idle session,
\* no call is ever rejected with ErrAlreadyStarted because of the other: a
\* goroutine that has called Start is past the started check whatever the other
\* has done, each stanza stores its handle in p over whatever is there, so p
\* holds, for each sink, the handle opened last, and the handle the other
\* goroutine opened for it is open and no longer in p.
C15_ConcurrentStartsNotAtomic ==
    /\ \A t \in Threads : thr[t].err # "ErrAlreadyStarted"
    /\ \A i \in 1..4 :
         LET opened == {thr[t].mine[i] : t \in {u \in Threads : Len(thr[u].mine) >= i}}
         IN  /\ opened = {} <=> Sinks(p)[i] = 0
             /\ opened # {} =>
                  /\ Sinks(p)[i] \in opened
                  /\ \A f \in opened : f <= Sinks(p)[i] /\ fds[f].open
    /\ \A t \in Threads : \A i \in DOMAIN thr[t].mine :
         i \in Overwritten(t) <=> \E u \in Threads \ {t} :
                                    Len(thr[u].mine) >= i /\ thr[u].mine[i] > thr[t].mine[i]

\* both goroutines have passed the started check before either has finished
\* its setup, both have opened the cpu sink, and the later open has replaced
\* the earlier handle in p, which is still open
C15_Witness ==
    \E t \in Threads : \E u \in Threads \ {t} :
      /\ thr[t].pc = "block" /\ thr[u].pc = "block"
      /\ Len(thr[t].mine) = 1 /\ Len(thr[u].mine) = 1
      /\ p.cpu = thr[u].mine[1]
      /\ Overwritten(t) = {1}
      /\ thr[t].err = "nil" /\ thr[u].err = "nil"

\* the labels Start can use
AllLabels == {labelOf([now |-> n], name) : n \in 1..MaxTime, name \in Labels}

\* which sink file f was opened for, as an index of Kinds
KindOf(f) == CHOOSE i \in 1..4 : \E l \in AllLabels : fds[f].name = fileName(Kinds[i], l)

\* the open files that p does not hold
Lost == {f \in DOMAIN fds : fds[f].open /\ \A i \in 1..4 : Sinks(p)[i] # f}

\* the calls so far that opened a sink, the Run in progress included
OpeningCalls ==
    Cardinality({i \in DOMAIN calls : calls[i].opened}) + (IF runPc = "idle" THEN 0 ELSE 1)

\* C17: every file a Start has opened is still held by p or has been closed.
C17_NoOpenHandleLost == Lost = {}

\* C17, amended: a file a Start has opened is held by p until a later call
\* opens the same sink again; that call overwrites the field while it holds the
\* open handle, which stays open.  No handle is lost while at most one call
\* has opened sinks.
C17_LostOnlyToLaterStart ==
    /\ Lost # {} => OpeningCalls >= 2
    /\ \A f \in Lost : Sinks(p)[KindOf(f)] > f

\* a second Start has overwritten the cpu handle the first one left open
C17_Witness ==
    /\ Len(calls) = 2
    /\ calls[1].op = "Start" /\ calls[2].op = "Start"
    /\ OpeningCalls = 2
    /\ 1 \in Lost
    /\ p.cpu > 1

\* the last call was a Start, or the Start of a Run, that failed at a sink
\* open, at the start of CPU sampling or at the start of tracing
AfterFailedStart ==
    /\ Len(calls) >= 1
    /\ LastCall.op \in {"Start", "Run"}
    /\ LastCall.failed
    /\ ~LastCall.started

\* C18: after a Start that failed, started() is still false: a Stop that
\* follows returns ErrNotStarted and touches no sink, and a Start that follows
\* is not rejected with ErrAlreadyStarted but runs setupFiles again, opening
\* the sinks again from the cpu sink on.
C18_FailedStartNotStarted ==
    [][AfterFailedStart =>
         /\ ~started(p)
         /\ IsCall("Stop") =>
              /\ calls'[Len(calls')].err = "ErrNotStarted"
              /\ <<p', fds', disk', cpuProf', traceProf'>> = <<p, fds, disk, cpuProf, traceProf>>
              /\ Es(ev') = <<"enter", "return">>
         /\ IsStartStep =>
              LET e == StartEvs(ev')
              IN  /\ e[Len(e)].k # "ErrAlreadyStarted"
                  /\ Len(e) >= 3
                  /\ e[2].e \in {"create", "createfail"}
                  /\ e[2].k = "cpu"
                  /\ e[2].e = "create" =>
                       /\ p'.cpu = Len(fds) + 1
                       /\ p'.cpu # p.cpu
                       /\ fds'[p'.cpu].open
                       /\ ~disk'[fds'[p'.cpu].name]]_vars

\* a Start that failed at the trace open was followed by a Start that opened
\* the cpu sink again
C18_Witness ==
    /\ Len(calls) = 2
    /\ calls[1].op = "Start" /\ calls[1].failed /\ calls[1].opened /\ ~calls[1].started
    /\ calls[2].op = "Start" /\ calls[2].err # "ErrAlreadyStarted"
    /\ ev[2].e = "create" /\ ev[2].k = "cpu"
    /\ p.cpu = ev[2].v
    /\ p.cpu > 1

====
